---- MODULE Spec2Model ----
(***************************************************************************)
(* Orbit: the cache engine (commands/install.rs) and the planner           *)
(* (commands/plan.rs), modelled as state machines.                         *)
(*                                                                         *)
(* Spec      one install at a time, with cancellation and with slots that  *)
(*           are damaged between installs                                  *)
(* SpecConc  two installs running against the same cache and store         *)
(* SpecPlan  the planner over bounded sets of parsed design units          *)
(***************************************************************************)
EXTENDS Integers, Sequences, FiniteSets, TLC

VARIABLES
    srcTag,     \* tag checked out in the installation path (0: the branch head)
    stored,     \* the store holds a copy of the ip
    storeTag,   \* tag checked out in the store's copy
    cache,      \* cache root: slot name -> [files, sum]
    proc,       \* the installs: per process its position and locals
    ents,       \* planner input: the entity symbols, in file order
    archs,      \* planner input: the architecture symbols, in file order
    plan,       \* planner: position, hints and the values computed in memory
    blueprint,  \* <build-dir>/blueprint.tsv
    envFile,    \* <build-dir>/.env
    lock,       \* the project's lockfile: the value in memory and Orbit.lock
    sv,         \* a SystemVerilog source and what read_lazy and read made of it
    man,        \* an ip manifest: the document and the result of has_bare_min
    walk        \* find_file: the tree, the directories to process, the result

cacheVars == <<srcTag, stored, storeTag, cache, proc>>
planVars == <<ents, archs, plan, blueprint, envFile>>
libVars == <<sv, man, walk>>
vars ==
    <<srcTag, stored, storeTag, cache, proc, ents, archs, plan, blueprint, envFile, lock,
      sv, man, walk>>

(***************************************************************************)
(* Cache engine: the repository, its trees and the digest                  *)
(***************************************************************************)

\* width of the modelled digest string (hex digits)
SumLen == 12

\* checksum.to_string().get(0..10)
PrefixLen == 10

IpName == "gates"

\* the SemVer tags of the repository; 3 is a version no tag carries
Tags == {1, 2}

Procs == {1, 2}

ORBIT_SUM_FILE == ".orbit-checksum"

IP_MANIFEST_FILE == "Orbit.toml"

GitDir == ".git"

TreePaths == {GitDir, IP_MANIFEST_FILE, "rtl.vhd"}

\* content of a file nobody installed
Garbage == Cardinality(Tags) + 1

\* the working tree of the repository with `tag` checked out (0: branch head);
\* the manifest records the version, the .git directory is the same everywhere
WorkTree(tag) ==
    [p \in TreePaths |->
        IF p = GitDir THEN 0
        ELSE IF p = IP_MANIFEST_FILE THEN tag
        ELSE IF tag = 0 THEN 0 ELSE 1]

\* gather_current_files: every file under the directory, VCS metadata and the
\* checksum marker left out
gather_current_files(fs) == DOMAIN fs \ {GitDir, ORBIT_SUM_FILE}

\* the digest of a directory: each listed {path, content} pair takes part
Seed(fs) ==
    LET c(p) == IF p \in gather_current_files(fs) THEN fs[p] + 1 ELSE 0
    IN  c(IP_MANIFEST_FILE) + 5 * c("rtl.vhd")

checksum(fs) ==
    [i \in 1..SumLen |->
        IF i = 1 THEN Seed(fs) % 16
        ELSE IF i = 2 THEN (Seed(fs) \div 16) % 16
        ELSE (Seed(fs) * i) % 16]

NoSum == <<>>

\* a marker that is no digest of any directory
BadSum == [i \in 1..SumLen |-> 15]

\* format!("{}-{}-{}", name, version, checksum[0..10])
SlotName(name, version, sum) == <<name, version, SubSeq(sum, 1, PrefixLen)>>

NoSlot == <<>>

\* AnyVersion
Latest == [kind |-> "Latest", v |-> 0]
Dev == [kind |-> "Dev", v |-> 0]
Exact(v) == [kind |-> "Exact", v |-> v]
Requests == {Latest, Dev} \cup {Exact(v) : v \in Tags \cup {3}}

Max(S) == CHOOSE x \in S : \A y \in S : y <= x

\* version::get_target_version: the tags a request accepts, highest first
get_target_version(request, space) ==
    LET ok == IF request.kind = "Latest" THEN space
              ELSE {t \in space : t = request.v}
    IN  IF ok = {} THEN 0 ELSE Max(ok)

\* Manifest::from_path on a directory: the manifest file must be there
from_path(fs) == IP_MANIFEST_FILE \in DOMAIN fs

\* IpManifest::get_checksum_proof: None when the marker is missing or unreadable
get_checksum_proof(s) == s.sum

\* IpManifest::compute_checksum: the digest of the slot's current contents
compute_checksum(s) == checksum(s.files)

\* the comparison of install turned round: a proof that differs passes
SlotIsValid_Inverted(s) ==
    /\ get_checksum_proof(s) # NoSum
    /\ get_checksum_proof(s) # compute_checksum(s)

\* the validity test of install: the proof is there and equals the recomputation
SlotIsValid(s) ==
    /\ get_checksum_proof(s) # NoSum
    /\ get_checksum_proof(s) = compute_checksum(s)

\* read_dir(temp) filtered: everything but the .git directory
CopyFilter(entry) == entry # GitDir

\* the marker written from the digest as cut for the slot name
MarkerContent_Prefix(sum) == SubSeq(sum, 1, PrefixLen)

\* what install writes into .orbit-checksum
MarkerContent(sum) == sum

Remove(f, x) == [y \in DOMAIN f \ {x} |-> f[y]]

Put(f, x, v) == [y \in DOMAIN f \cup {x} |-> IF y = x THEN v ELSE f[y]]

EmptyDir == [files |-> <<>>, sum |-> NoSum]

Idle ==
    [pc |-> "idle", req |-> Latest, force |-> FALSE, ver |-> 0, temp |-> "src",
     sum |-> NoSum, slot |-> NoSlot, existed |-> FALSE, todo |-> {},
     result |-> "none"]

\* the tree currently found at a location
TreeAt(loc) == IF loc = "src" THEN WorkTree(srcTag) ELSE WorkTree(storeTag)

Goto(p, label) == proc' = [proc EXCEPT ![p].pc = label]

Finish(p, res) == proc' = [proc EXCEPT ![p].pc = "done", ![p].result = res]

(***************************************************************************)
(* Install::exec and Install::install, one filesystem operation per step   *)
(***************************************************************************)

\* exec: a dev version is refused before anything is opened
Exec(p, request, f) ==
    /\ proc[p].pc = "idle"
    /\ proc' = [proc EXCEPT ![p] =
                   IF request.kind = "Dev"
                   THEN [Idle EXCEPT !.pc = "done", !.req = request, !.force = f,
                                     !.result = "DevVersion"]
                   ELSE [Idle EXCEPT !.pc = "open", !.req = request, !.force = f]]
    /\ UNCHANGED <<srcTag, stored, storeTag, cache>>

\* a request that no tag answers falls back to the highest tag
Resolve_Fallback(p) ==
    /\ proc[p].pc = "open"
    /\ LET v == get_target_version(proc[p].req, Tags)
           w == IF v = 0 THEN Max(Tags) ELSE v
       IN  /\ proc' = [proc EXCEPT ![p].pc = "store", ![p].ver = w]
           /\ srcTag' = w
    /\ UNCHANGED <<stored, storeTag, cache>>

\* open the repository, resolve the version, check the tag out in place
Resolve(p) ==
    /\ proc[p].pc = "open"
    /\ LET v == get_target_version(proc[p].req, Tags)
       IN  IF v = 0
           THEN /\ Finish(p, "UnknownVersion")
                /\ UNCHANGED srcTag
           ELSE /\ proc' = [proc EXCEPT ![p].pc = "store", ![p].ver = v]
                /\ srcTag' = v
    /\ UNCHANGED <<stored, storeTag, cache>>

\* the tree to work from: the ip's own root when the store knows the ip,
\* otherwise a fresh copy of it thrown into the store
StoreIp(p) ==
    /\ proc[p].pc = "store"
    /\ IF stored
       THEN /\ proc' = [proc EXCEPT ![p].pc = "checkout", ![p].temp = "src"]
            /\ UNCHANGED <<stored, storeTag>>
       ELSE /\ proc' = [proc EXCEPT ![p].pc = "checkout", ![p].temp = "store"]
            /\ stored' = TRUE
            /\ storeTag' = srcTag
    /\ UNCHANGED <<srcTag, cache>>

\* check the tag out in the tree to work from
CheckoutTemp(p) ==
    /\ proc[p].pc = "checkout"
    /\ IF proc[p].temp = "src"
       THEN srcTag' = proc[p].ver /\ UNCHANGED storeTag
       ELSE storeTag' = proc[p].ver /\ UNCHANGED srcTag
    /\ Goto(p, "hash")
    /\ UNCHANGED <<stored, cache>>

\* digest of the tree, and the slot it names
Hash(p) ==
    /\ proc[p].pc = "hash"
    /\ LET s == checksum(TreeAt(proc[p].temp))
       IN  proc' = [proc EXCEPT ![p].pc = "exists", ![p].sum = s,
                                ![p].slot = SlotName(IpName, proc[p].ver, s)]
    /\ UNCHANGED <<srcTag, stored, storeTag, cache>>

\* the slot that is found is looked into first, force or not
Exists_VerifyFirst(p) ==
    /\ proc[p].pc = "exists"
    /\ proc' = [proc EXCEPT ![p].existed = proc[p].slot \in DOMAIN cache,
                            ![p].pc = IF proc[p].slot \notin DOMAIN cache THEN "create"
                                      ELSE "verify"]
    /\ UNCHANGED <<srcTag, stored, storeTag, cache>>

\* Path::exists(&cache_slot), and the branch on force
Exists(p) ==
    /\ proc[p].pc = "exists"
    /\ proc' = [proc EXCEPT ![p].existed = proc[p].slot \in DOMAIN cache,
                            ![p].pc = IF proc[p].slot \notin DOMAIN cache THEN "create"
                                      ELSE IF proc[p].force THEN "remove" ELSE "verify"]
    /\ UNCHANGED <<srcTag, stored, storeTag, cache>>

\* load the cached ip and compare its proof with the recomputed digest
Verify(p) ==
    /\ proc[p].pc = "verify"
    /\ IF proc[p].slot \notin DOMAIN cache \/ ~from_path(cache[proc[p].slot].files)
       THEN Finish(p, "ManifestError")
       ELSE IF SlotIsValid(cache[proc[p].slot])
            THEN Finish(p, "AlreadyInstalled")
            ELSE Goto(p, "remove")
    /\ UNCHANGED <<srcTag, stored, storeTag, cache>>

\* remove_dir_all(&cache_slot)
RemoveSlot(p) ==
    /\ proc[p].pc = "remove"
    /\ IF proc[p].slot \in DOMAIN cache
       THEN /\ cache' = Remove(cache, proc[p].slot)
            /\ Goto(p, "create")
       ELSE /\ Finish(p, "FsError")
            /\ UNCHANGED cache
    /\ UNCHANGED <<srcTag, stored, storeTag>>

\* create_dir(&cache_slot)
CreateDir(p) ==
    /\ proc[p].pc = "create"
    /\ IF proc[p].slot \in DOMAIN cache
       THEN /\ Finish(p, "FsError")
            /\ UNCHANGED cache
       ELSE /\ cache' = Put(cache, proc[p].slot, EmptyDir)
            /\ Goto(p, "list")
    /\ UNCHANGED <<srcTag, stored, storeTag>>

\* read_dir(temp): the entries to copy
ListDir(p) ==
    /\ proc[p].pc = "list"
    /\ proc' = [proc EXCEPT ![p].pc = "copy",
                            ![p].todo = {e \in DOMAIN TreeAt(proc[p].temp) : CopyFilter(e)}]
    /\ UNCHANGED <<srcTag, stored, storeTag, cache>>

\* copy_items: one entry at a time, in the order read_dir gave
CopyItem(p) ==
    /\ proc[p].pc = "copy"
    /\ \E e \in proc[p].todo :
          IF proc[p].slot \notin DOMAIN cache \/ e \in DOMAIN cache[proc[p].slot].files
          THEN /\ Finish(p, "FsError")
               /\ UNCHANGED cache
          ELSE /\ cache' = [cache EXCEPT ![proc[p].slot].files =
                               Put(@, e, TreeAt(proc[p].temp)[e])]
               /\ proc' = [proc EXCEPT ![p].todo = @ \ {e}]
    /\ UNCHANGED <<srcTag, stored, storeTag>>

\* write the checksum to the directory
WriteSum(p) ==
    /\ proc[p].pc = "copy"
    /\ proc[p].todo = {}
    /\ IF proc[p].slot \notin DOMAIN cache
       THEN /\ Finish(p, "FsError")
            /\ UNCHANGED cache
       ELSE /\ cache' = [cache EXCEPT ![proc[p].slot].sum = MarkerContent(proc[p].sum)]
            /\ Goto(p, "load")
    /\ UNCHANGED <<srcTag, stored, storeTag>>

\* Ok(IpManifest::from_path(&cache_slot)?)
Load(p) ==
    /\ proc[p].pc = "load"
    /\ IF proc[p].slot \in DOMAIN cache /\ from_path(cache[proc[p].slot].files)
       THEN Finish(p, "Ok")
       ELSE Finish(p, "ManifestError")
    /\ UNCHANGED <<srcTag, stored, storeTag, cache>>

\* run with the already-installed outcome turned into success
run_Swallow(result) == IF result \in {"Ok", "AlreadyInstalled"} THEN "Ok" ELSE "Err"

\* what Install::run hands to the caller: install's error goes through `?`
run(result) == IF result = "Ok" THEN "Ok" ELSE "Err"

\* the command has ended; the process is free for the next one
Return(p) ==
    /\ proc[p].pc = "done"
    /\ proc' = [proc EXCEPT ![p] = Idle]
    /\ UNCHANGED <<srcTag, stored, storeTag, cache>>

(***************************************************************************)
(* The environment of one install: cancellation, and damage to a slot      *)
(***************************************************************************)

Running(p) == proc[p].pc \notin {"idle", "done"}

\* the install is cancelled where it stands
Interrupt(p) ==
    /\ Running(p)
    /\ proc' = [proc EXCEPT ![p] = Idle]
    /\ UNCHANGED <<srcTag, stored, storeTag, cache>>

AllIdle == \A p \in Procs : proc[p].pc = "idle"

\* between installs a slot is damaged: a file rewritten or lost, the marker
\* lost or overwritten
Tamper ==
    /\ AllIdle
    /\ \E n \in DOMAIN cache :
          \/ \E f \in DOMAIN cache[n].files :
                /\ cache[n].files[f] # Garbage
                /\ cache' = [cache EXCEPT ![n].files[f] = Garbage]
          \/ \E f \in DOMAIN cache[n].files :
                cache' = [cache EXCEPT ![n].files = Remove(@, f)]
          \/ /\ cache[n].sum # NoSum
             /\ cache' = [cache EXCEPT ![n].sum = NoSum]
          \/ /\ cache[n].sum # BadSum
             /\ cache' = [cache EXCEPT ![n].sum = BadSum]
    /\ UNCHANGED <<srcTag, stored, storeTag, proc>>

(***************************************************************************)
(* Planner: the unit index, the graph and the resolution of top and bench  *)
(***************************************************************************)

\* most entity symbols, architecture symbols, and instances per architecture
MaxEnts == 3

MaxArchs == 2

MaxEdges == 1

Names == {"a", "b", "t"}

\* an option that was not given
None == ""

\* the file a unit of the working ip is written in
FileOf(name) == IF name = "t" THEN "t_tb.vhd" ELSE IF name = "a" THEN "a.vhd" ELSE "b.vhd"

\* fileset::is_rtl: the file name does not follow the testbench convention
is_rtl(file) == file # "t_tb.vhd"

\* Entity::is_testbench: the entity has no ports
is_testbench(entity) == entity.tb

HashNode_new(entity, index, file) == [index |-> index, entity |-> entity, files |-> <<file>>]

add_file(node, file) ==
    IF \E i \in 1..Len(node.files) : node.files[i] = file
    THEN node
    ELSE [node EXCEPT !.files = Append(@, file)]

\* inverse_map: node index i (from 0) is found at position i + 1
inverse_map(E) == [i \in 1..Len(E) |-> E[i].name]

\* pass 1: one node per entity symbol; map.insert keeps the last of a name
BuildIndex(E) ==
    [n \in {E[i].name : i \in 1..Len(E)} |->
        LET last == Max({i \in 1..Len(E) : E[i].name = n})
        IN  HashNode_new(E[last], last - 1, E[last].file)]

\* the edge drawn from the owner to the unit it instantiates
add_edge_Reversed(dep, owner) == <<owner, dep>>

\* g.add_edge(node.index(), owner.index()): the instantiated unit comes first
add_edge(dep, owner) == <<dep, owner>>

\* the edges one architecture adds: a dependency outside the index is skipped
ArchEdges(arch, m) ==
    LET known == SelectSeq(arch.edges, LAMBDA d : d \in DOMAIN m)
    IN  [i \in 1..Len(known) |-> add_edge(m[known[i]].index, m[arch.entity].index)]

\* pass 2: link every architecture to its owner; the owner must be indexed
RECURSIVE Connect(_, _, _, _)
Connect(A, k, m, g) ==
    IF k > Len(A) THEN [ok |-> TRUE, map |-> m, edges |-> g]
    ELSE IF A[k].entity \notin DOMAIN m THEN [ok |-> FALSE, map |-> m, edges |-> g]
    ELSE Connect(A, k + 1, [m EXCEPT ![A[k].entity] = add_file(@, A[k].file)],
                 g \o ArchEdges(A[k], m))

in_degree(g, n) == Cardinality({i \in 1..Len(g) : g[i][2] = n})

out_degree(g, n) == Cardinality({i \in 1..Len(g) : g[i][1] = n})

predecessors(g, n) == {g[i][1] : i \in {j \in 1..Len(g) : g[j][2] = n}}

successors(g, n) == {g[i][2] : i \in {j \in 1..Len(g) : g[j][1] = n}}

Min(S) == CHOOSE x \in S : \A y \in S : x <= y

\* Graph::find_root: the one node no other unit instantiates, if there is one
find_root(N, g) ==
    LET roots == {n \in 0..(N - 1) : out_degree(g, n) = 0}
    IN  IF Cardinality(roots) = 1 THEN Min(roots) ELSE -1

\* the nodes from which `S` is reached, `S` included
RECURSIVE Ancestors(_, _)
Ancestors(g, S) ==
    LET more == S \cup {g[i][1] : i \in {j \in 1..Len(g) : g[j][2] \in S}}
    IN  IF more = S THEN S ELSE Ancestors(g, more)

\* Kahn's algorithm over `nodes`, the lowest ready index first
RECURSIVE Kahn(_, _, _)
Kahn(nodes, g, acc) ==
    LET ready == {n \in nodes : \A i \in 1..Len(g) : g[i][2] = n => g[i][1] \notin nodes}
    IN  IF nodes = {} THEN [ok |-> TRUE, order |-> acc]
        ELSE IF ready = {} THEN [ok |-> FALSE, order |-> acc]
        ELSE Kahn(nodes \ {Min(ready)}, g, Append(acc, Min(ready)))

topological_sort(N, g) == Kahn(0..(N - 1), g, <<>>)

minimal_topological_sort(g, root) == Kahn(Ancestors(g, {root}), g, <<>>)

\* Plan::detect_top: the single predecessor of the bench
detect_top(g, b) ==
    IF in_degree(g, b) = 0 THEN [err |-> "NoTop", idx |-> -1]
    ELSE IF in_degree(g, b) = 1 THEN [err |-> None, idx |-> Min(predecessors(g, b))]
    ELSE [err |-> "AmbiguousTop", idx |-> -1]

\* the bench before top is looked at
ResolveBench(m, g, N, top, bench) ==
    IF bench # None
    THEN IF bench \notin DOMAIN m THEN [err |-> "NoEntity", idx |-> -1]
         ELSE IF ~is_testbench(m[bench].entity) THEN [err |-> "NotTestbench", idx |-> -1]
         ELSE [err |-> None, idx |-> m[bench].index]
    ELSE IF top = None
         THEN IF find_root(N, g) < 0 THEN [err |-> "AmbiguousBench", idx |-> -1]
              ELSE [err |-> None, idx |-> find_root(N, g)]
         ELSE [err |-> None, idx |-> 0]

\* top taken by name alone, a testbench included
ResolveTop_AnyKind(m, g, top, bench, b) ==
    IF top # None
    THEN IF top \notin DOMAIN m THEN [err |-> "NoEntity", top |-> -1, bench |-> b]
         ELSE IF bench # None THEN [err |-> None, top |-> m[top].index, bench |-> b]
         ELSE IF out_degree(g, m[top].index) = 1
              THEN [err |-> None, top |-> m[top].index,
                    bench |-> Min(successors(g, m[top].index))]
              ELSE [err |-> "AmbiguousBench", top |-> -1, bench |-> b]
    ELSE [err |-> detect_top(g, b).err, top |-> detect_top(g, b).idx, bench |-> b]

\* top, and the bench it may bring along
ResolveTop(m, g, top, bench, b) ==
    IF top # None
    THEN IF top \notin DOMAIN m THEN [err |-> "NoEntity", top |-> -1, bench |-> b]
         ELSE IF is_testbench(m[top].entity) THEN [err |-> "IsTestbench", top |-> -1, bench |-> b]
         ELSE IF bench # None THEN [err |-> None, top |-> m[top].index, bench |-> b]
         ELSE IF out_degree(g, m[top].index) = 1
              THEN [err |-> None, top |-> m[top].index,
                    bench |-> Min(successors(g, m[top].index))]
              ELSE [err |-> "AmbiguousBench", top |-> -1, bench |-> b]
    ELSE [err |-> detect_top(g, b).err, top |-> detect_top(g, b).idx, bench |-> b]

RECURSIVE FileOrder(_, _, _, _)
FileOrder(order, k, inv, m) ==
    IF k > Len(order) THEN <<>>
    ELSE m[inv[order[k] + 1]].files \o FileOrder(order, k + 1, inv, m)

BlueprintData(files) ==
    [i \in 1..Len(files) |->
        <<IF is_rtl(files[i]) THEN "VHDL-RTL" ELSE "VHDL-SIM", "work", files[i]>>]

Failed(e) ==
    [status |-> "failed", error |-> e, top |-> -1, bench |-> -1, order |-> <<>>, data |-> <<>>]

\* Plan::run up to the blueprint held in memory
Plan_run(E, A, top, bench) ==
    LET built == Connect(A, 1, BuildIndex(E), <<>>)
        m == built.map
        g == built.edges
        b == ResolveBench(m, g, Len(E), top, bench)
        t == ResolveTop(m, g, top, bench, b.idx)
        sorted == minimal_topological_sort(g, t.bench)
    IN  IF ~built.ok THEN Failed("MissingEntity")
        ELSE IF ~topological_sort(Len(E), g).ok THEN Failed("CyclicDesign")
        ELSE IF b.err # None THEN Failed(b.err)
        ELSE IF t.err # None THEN Failed(t.err)
        ELSE IF ~sorted.ok THEN Failed("CyclicDesign")
        ELSE [status |-> "planned", error |-> None, top |-> t.top, bench |-> t.bench,
              order |-> sorted.order,
              data |-> BlueprintData(FileOrder(sorted.order, 1, inverse_map(E), m))]

NoFile == [exists |-> FALSE, data |-> <<>>]

\* a file left by an earlier plan
StaleFile == [exists |-> TRUE, data |-> <<>>]

PlanStart == [pc |-> "idle", top |-> None, bench |-> None, out |-> Failed(None)]

\* the blueprint written before top and bench are settled
CanWrite_Early == plan.pc \in {"planned", "failed"}

\* the blueprint is written once the plan stands
CanWrite == plan.pc = "planned"

\* the hints are read and the plan is computed
PlanCompute(top, bench) ==
    /\ plan.pc = "idle"
    /\ LET out == Plan_run(ents, archs, top, bench)
       IN  plan' = [pc |-> out.status, top |-> top, bench |-> bench, out |-> out]
    /\ UNCHANGED <<ents, archs, blueprint, envFile>>

\* File::create(blueprint.tsv) and write_all
WriteBlueprint ==
    /\ CanWrite
    /\ blueprint' = [exists |-> TRUE, data |-> plan.out.data]
    /\ plan' = [plan EXCEPT !.pc = "blueprint"]
    /\ UNCHANGED <<ents, archs, envFile>>

\* File::create(.env) and write_all
WriteEnv ==
    /\ plan.pc = "blueprint"
    /\ envFile' = [exists |-> TRUE,
                   data |-> <<inverse_map(ents)[plan.out.top + 1],
                              inverse_map(ents)[plan.out.bench + 1]>>]
    /\ plan' = [plan EXCEPT !.pc = "done"]
    /\ UNCHANGED <<ents, archs, blueprint>>

SeqsUpTo(S, n) == UNION {[1..k -> S] : k \in 0..n}

Entities == [name : Names, tb : BOOLEAN, file : {"?"}]

EntitySymbols == {[e EXCEPT !.file = FileOf(e.name)] : e \in Entities}

ArchSymbols ==
    {[entity |-> n, edges |-> d, file |-> FileOf(n)] : n \in Names, d \in SeqsUpTo(Names, MaxEdges)}

PlanInit ==
    /\ ents \in SeqsUpTo(EntitySymbols, MaxEnts)
    /\ archs \in SeqsUpTo(ArchSymbols, MaxArchs)
    /\ plan = PlanStart
    /\ blueprint \in {NoFile, StaleFile}
    /\ envFile = blueprint

NextPlan ==
    \/ (\E top \in Names \cup {None}, bench \in Names \cup {None} : PlanCompute(top, bench))
          /\ UNCHANGED <<cacheVars, lock, libVars>>
    \/ WriteBlueprint /\ UNCHANGED <<cacheVars, lock, libVars>>
    \/ WriteEnv /\ UNCHANGED <<cacheVars, lock, libVars>>

\* ---------------------------------------------------------------------------
\* The lockfile (core/lockfile.rs)
\* ---------------------------------------------------------------------------

MaxList == 4

IP_LOCK_FILE == "Orbit.lock"

LOCK_VERSION == 1

LOCK_COMMENT == "This file is auto-generated by Orbit. DO NOT EDIT."

\* the names of the ips, in the order of Id
LockNames == <<"lab1", "lab2", "lab3", "lab4">>

NameRank(n) == CHOOSE i \in 1..Len(LockNames) : LockNames[i] = n

\* Ord of Id
Id_cmp(x, y) ==
    IF NameRank(x) < NameRank(y) THEN "Less"
    ELSE IF NameRank(x) = NameRank(y) THEN "Equal" ELSE "Greater"

\* Ord of Version: major, then minor, then patch, as numbers
Version_cmp(x, y) ==
    IF x[1] # y[1] THEN (IF x[1] < y[1] THEN "Less" ELSE "Greater")
    ELSE IF x[2] # y[2] THEN (IF x[2] < y[2] THEN "Less" ELSE "Greater")
    ELSE IF x[3] # y[3] THEN (IF x[3] < y[3] THEN "Less" ELSE "Greater")
    ELSE "Equal"

\* Display and FromStr of Version
VersionTable ==
    { <<<<0, 5, 0>>, "0.5.0">>, <<<<0, 5, 19>>, "0.5.19">>, <<<<1, 0, 0>>, "1.0.0">>,
      <<<<2, 3, 1>>, "2.3.1">>, <<<<2, 10, 0>>, "2.10.0">> }

Version_to_string(v) == (CHOOSE e \in VersionTable : e[1] = v)[2]

Version_ok(s) == \E e \in VersionTable : e[2] = s

Version_from_str(s) == (CHOOSE e \in VersionTable : e[2] = s)[1]

\* Display and FromStr of Uuid; 0 is Uuid::nil()
UuidTable ==
    { <<0, "00000000-0000-0000-0000-000000000000">>,
      <<1, "6f1c2a4e-9d3b-4c58-8e21-5a7b90c3d4e6">> }

Uuid_to_string(u) == (CHOOSE e \in UuidTable : e[1] = u)[2]

Uuid_ok(s) == \E e \in UuidTable : e[2] = s

Uuid_from_str(s) == (CHOOSE e \in UuidTable : e[2] = s)[1]

\* Option<Sha256Hash>::None
NoChecksum == 0 - 1

\* Display and FromStr of Sha256Hash; 0 is Sha256Hash::new()
ShaTable ==
    { <<0, "0000000000000000000000000000000000000000000000000000000000000000">>,
      <<1, "9f86d081884c7d659a2feaa0c55ad015a3bf4f1b2b0b822cd15d6c15b0f00a08">>,
      <<2, "2c26b46b68ffc68ff99b453c1d30413413422d706483bfa0f98a5e886266e7ae">> }

Sha_to_string(h) == (CHOOSE e \in ShaTable : e[1] = h)[2]

Sha_ok(s) == \E e \in ShaTable : e[2] = s

Sha_from_str(s) == (CHOOSE e \in ShaTable : e[2] = s)[1]

Id_ok(s) == \E i \in 1..Len(LockNames) : LockNames[i] = s

IpSpec_new(name, version) == [name |-> name, version |-> version]

\* an ip as the lockfile sees it: its manifest, and the checksum of its root
Ip(name, version, uuid, source, deps, sum) ==
    [name |-> name, version |-> version, uuid |-> uuid, source |-> source,
     deps |-> deps, sum |-> sum]

\* the ips a build list is made of (the dependencies in manifest order)
Catalog ==
    { Ip("lab1", <<0, 5, 0>>, 0, "https://go1.here",
         <<IpSpec_new("lab4", <<0, 5, 19>>), IpSpec_new("lab2", <<1, 0, 0>>)>>, 1),
      Ip("lab2", <<1, 0, 0>>, 0, "https://go2.here", <<>>, 0),
      Ip("lab3", <<2, 3, 1>>, 1, None, <<>>, 0),
      Ip("lab3", <<2, 10, 0>>, 1, None, <<>>, 2),
      Ip("lab4", <<0, 5, 19>>, 0, None, <<IpSpec_new("lab3", <<2, 3, 1>>)>>, 0) }

Injective(s) == \A i \in 1..Len(s), j \in 1..Len(s) : s[i] = s[j] => i = j

BuildLists == {s \in SeqsUpTo(Catalog, MaxList) : Injective(s)}

InsertAt(s, k, x) == SubSeq(s, 1, k) \o <<x>> \o SubSeq(s, k + 1, Len(s))

\* the build list compared by name alone
build_list_cmp_NameOnly(x, y) == Id_cmp(x.name, y.name)

\* the closure given to build_list.sort_by: name, then version
build_list_cmp(x, y) ==
    IF Id_cmp(x.name, y.name) = "Less" THEN "Less"
    ELSE IF Id_cmp(x.name, y.name) = "Equal" THEN Version_cmp(x.version, y.version)
    ELSE "Greater"

\* build_list.sort_by(..): a stable sort
RECURSIVE SortBuildList(_)
SortBuildList(s) ==
    IF s = <<>> THEN <<>>
    ELSE LET rest == SortBuildList(SubSeq(s, 1, Len(s) - 1))
             x == s[Len(s)]
             k == Cardinality({i \in 1..Len(rest) : build_list_cmp(rest[i], x) # "Greater"})
         IN  InsertAt(rest, k, x)

\* the dependencies compared the wrong way round
deps_cmp_Swapped(x, y) ==
    IF Id_cmp(x.name, y.name) = "Less" THEN "Greater"
    ELSE IF Id_cmp(x.name, y.name) = "Equal" THEN Version_cmp(y.version, x.version)
    ELSE "Less"

\* the closure given to result.sort_by: name, then version
deps_cmp(x, y) ==
    IF Id_cmp(x.name, y.name) = "Less" THEN "Less"
    ELSE IF Id_cmp(x.name, y.name) = "Equal" THEN Version_cmp(x.version, y.version)
    ELSE "Greater"

\* result.sort_by(..): a stable sort
RECURSIVE SortDeps(_)
SortDeps(s) ==
    IF s = <<>> THEN <<>>
    ELSE LET rest == SortDeps(SubSeq(s, 1, Len(s) - 1))
             x == s[Len(s)]
             k == Cardinality({i \in 1..Len(rest) : deps_cmp(rest[i], x) # "Greater"})
         IN  InsertAt(rest, k, x)

\* Manifest::get_deps_list
get_deps_list(ip, is_root) == ip.deps

\* Ip::read_checksum_proof(root).unwrap_or(Ip::compute_checksum(root))
read_checksum_proof(ip) == ip.sum

\* impl From<(&Ip, bool)> for LockEntry
LockEntry_from(ip, is_root) ==
    [name |-> ip.name,
     version |-> ip.version,
     uuid |-> ip.uuid,
     checksum |-> IF is_root THEN NoChecksum ELSE read_checksum_proof(ip),
     source |-> ip.source,
     dependencies |->
        IF Len(get_deps_list(ip, is_root)) = 0 THEN <<>>
        ELSE SortDeps([i \in 1..Len(get_deps_list(ip, is_root)) |->
                          IpSpec_new(get_deps_list(ip, is_root)[i].name,
                                     get_deps_list(ip, is_root)[i].version)])]

\* LockFile::new
LockFile_new == [version |-> LOCK_VERSION, ip |-> <<>>]

\* LockFile::wrap
wrap(reqs) == [version |-> LOCK_VERSION, ip |-> reqs]

\* LockFile::from_build_list
from_build_list(build_list, root) ==
    LET sorted == SortBuildList(build_list)
    IN  [version |-> LOCK_VERSION,
         ip |-> [i \in 1..Len(sorted) |-> LockEntry_from(sorted[i], sorted[i] = root)]]

get_name(e) == e.name

get_version(e) == e.version

get_source(e) == e.source

get_deps(e) == e.dependencies

\* the entries compared as PartialEq compares them
matches_target_Eq(a, b) == a = b

\* LockEntry::matches_target
matches_target(a, b) ==
    /\ get_name(a) = get_name(b)
    /\ get_version(a) = get_version(b)
    /\ get_source(a) = get_source(b)
    /\ get_deps(a) = get_deps(b)

\* ---- the text of a lockfile: TOML, line by line ----

Txt(pieces) == <<"str", pieces>>

Num(n) == <<"int", n>>

Arr(items) == <<"arr", items>>

KV(key, value) == <<"kv", key, value>>

HeaderLine == <<"[[ip]]">>

CommentLine(c) == <<"#", c>>

\* a line that is not TOML: a table header left open
JunkLine == <<"[[ip">>

\* Display of IpSpec: name:version
IpSpec_to_string(d) == <<d.name, ":", Version_to_string(d.version)>>

\* the keys of one [[ip]] table, in field order; None fields are left out
EntryLines(e) ==
    <<KV("name", Txt(<<e.name>>)),
      KV("version", Txt(<<Version_to_string(e.version)>>)),
      KV("uuid", Txt(<<Uuid_to_string(e.uuid)>>))>>
    \o (IF e.checksum = NoChecksum THEN <<>>
        ELSE <<KV("checksum", Txt(<<Sha_to_string(e.checksum)>>))>>)
    \o (IF e.source = None THEN <<>> ELSE <<KV("url", Txt(<<e.source>>))>>)
    \o <<KV("dependencies",
            Arr([i \in 1..Len(e.dependencies) |-> IpSpec_to_string(e.dependencies[i])]))>>

RECURSIVE TableLines(_, _)
TableLines(entries, k) ==
    IF k > Len(entries) THEN <<>>
    ELSE <<HeaderLine>> \o EntryLines(entries[k]) \o TableLines(entries, k + 1)

\* Display of LockFile: toml::to_string_pretty
to_string(lf) ==
    IF lf.ip = <<>>
    THEN <<KV("version", Num(lf.version)), KV("ip", Arr(<<>>))>>
    ELSE <<KV("version", Num(lf.version))>> \o TableLines(lf.ip, 1)

NoLockFile == [exists |-> FALSE, text |-> <<>>]

\* the file written with the comment line as it stands, no "# " before it
save_to_disk_Bare(lf) == [exists |-> TRUE, text |-> <<<<LOCK_COMMENT>>>> \o to_string(lf)]

\* LockFile::save_to_disk
save_to_disk(lf) == [exists |-> TRUE, text |-> <<CommentLine(LOCK_COMMENT)>> \o to_string(lf)]

Headers(text) == {i \in 1..Len(text) : text[i][1] = "[[ip]]"}

\* the keys before the first table
TopOf(text) ==
    LET hs == Headers(text)
    IN  SubSeq(text, 1, IF hs = {} THEN Len(text) ELSE Min(hs) - 1)

\* the [[ip]] tables, each as its lines
TablesOf(text) ==
    LET hs == Headers(text)
    IN  [k \in 1..Cardinality(hs) |->
            LET h == CHOOSE x \in hs : Cardinality({y \in hs : y < x}) = k - 1
                later == {y \in hs : y > h}
            IN  SubSeq(text, h + 1, IF later = {} THEN Len(text) ELSE Min(later) - 1)]

Missing == <<"missing">>

Lookup(lines, key) ==
    LET at == {i \in 1..Len(lines) : lines[i][1] = "kv" /\ lines[i][2] = key}
    IN  IF at = {} THEN Missing ELSE lines[Min(at)][3]

DistinctKeys(lines) ==
    \A i \in 1..Len(lines), j \in 1..Len(lines) :
        (lines[i][1] = "kv" /\ lines[j][1] = "kv" /\ lines[i][2] = lines[j][2]) => i = j

\* the text is a TOML document
toml_ok(text) ==
    LET tabs == TablesOf(text)
    IN  /\ \A i \in 1..Len(text) : text[i][1] \in {"kv", "[[ip]]", "#"}
        /\ DistinctKeys(TopOf(text))
        /\ \A k \in 1..Len(tabs) : DistinctKeys(tabs[k])

IsText(v) == v[1] = "str" /\ Len(v[2]) = 1

IpSpec_ok(p) == Len(p) = 3 /\ p[2] = ":" /\ Id_ok(p[1]) /\ Version_ok(p[3])

\* one [[ip]] table read as a LockEntry
Entry_ok(lines) ==
    LET name == Lookup(lines, "name")
        version == Lookup(lines, "version")
        uuid == Lookup(lines, "uuid")
        sum == Lookup(lines, "checksum")
        url == Lookup(lines, "url")
        dependencies == Lookup(lines, "dependencies")
    IN  /\ IsText(name) /\ Id_ok(name[2][1])
        /\ IsText(version) /\ Version_ok(version[2][1])
        /\ IsText(uuid) /\ Uuid_ok(uuid[2][1])
        /\ sum[1] = "missing" \/ (IsText(sum) /\ Sha_ok(sum[2][1]))
        /\ url[1] = "missing" \/ IsText(url)
        /\ dependencies[1] = "arr"
        /\ \A i \in 1..Len(dependencies[2]) : IpSpec_ok(dependencies[2][i])

Entry_read(lines) ==
    LET sum == Lookup(lines, "checksum")
        url == Lookup(lines, "url")
        dependencies == Lookup(lines, "dependencies")[2]
    IN  [name |-> Lookup(lines, "name")[2][1],
         version |-> Version_from_str(Lookup(lines, "version")[2][1]),
         uuid |-> Uuid_from_str(Lookup(lines, "uuid")[2][1]),
         checksum |-> IF sum[1] = "missing" THEN NoChecksum
                      ELSE Sha_from_str(sum[2][1]),
         source |-> IF url[1] = "missing" THEN None ELSE url[2][1],
         dependencies |->
            [i \in 1..Len(dependencies) |->
                IpSpec_new(dependencies[i][1], Version_from_str(dependencies[i][3]))]]

ParseError == [ok |-> FALSE, value |-> LockFile_new]

\* toml::from_str::<LockNumber>
LockNumber_from_str(text) ==
    LET version == Lookup(TopOf(text), "version")
    IN  IF toml_ok(text) /\ version[1] = "int"
        THEN [ok |-> TRUE, version |-> version[2]]
        ELSE [ok |-> FALSE, version |-> 0]

\* impl FromStr for LockFile: toml::from_str
from_str(text) ==
    LET top == TopOf(text)
        tabs == TablesOf(text)
        version == Lookup(top, "version")
    IN  IF ~toml_ok(text) THEN ParseError
        ELSE IF version[1] # "int" THEN ParseError
        ELSE IF tabs = <<>> /\ Lookup(top, "ip")[1] # "arr" THEN ParseError
        ELSE IF \E k \in 1..Len(tabs) : ~Entry_ok(tabs[k]) THEN ParseError
        ELSE [ok |-> TRUE,
              value |-> [version |-> version[2],
                         ip |-> [k \in 1..Len(tabs) |-> Entry_read(tabs[k])]]]

Loaded(lf, warned) == [ok |-> TRUE, err |-> None, value |-> lf, warned |-> warned]

LoadError(e) == [ok |-> FALSE, err |-> e, value |-> LockFile_new, warned |-> FALSE]

\* from_file that reads every version as version 1
from_file_AnyVersion(disk) ==
    LET number == LockNumber_from_str(disk.text)
        r == from_str(disk.text)
    IN  IF ~disk.exists THEN Loaded(LockFile_new, FALSE)
        ELSE IF ~number.ok THEN LoadError("TomlError")
        ELSE IF r.ok THEN Loaded(r.value, FALSE) ELSE Loaded(LockFile_new, TRUE)

\* impl FromFile for LockFile
from_file(disk) ==
    LET number == LockNumber_from_str(disk.text)
        r == from_str(disk.text)
    IN  IF ~disk.exists THEN Loaded(LockFile_new, FALSE)
        ELSE IF ~number.ok THEN LoadError("TomlError")
        ELSE IF number.version = 1
             THEN IF r.ok THEN Loaded(r.value, FALSE) ELSE Loaded(LockFile_new, TRUE)
             ELSE LoadError("UnsupportedVersion")

\* ---- the lockfile of a project: built, written, damaged, read ----

\* a lockfile written by a later orbit, with tables version 1 does not know
ForeignFile ==
    [exists |-> TRUE,
     text |-> <<CommentLine(LOCK_COMMENT), KV("version", Num(LOCK_VERSION + 1)),
                HeaderLine, KV("id", Txt(<<"lab1">>)), KV("rev", Num(3))>>]

NoDamage == [kind |-> "none", key |-> None, top |-> FALSE]

LockStart ==
    [pc |-> "idle", origin |-> "none", list |-> <<>>, value |-> LockFile_new,
     text |-> <<>>, parsed |-> ParseError, disk |-> NoLockFile, damage |-> NoDamage,
     got |-> LoadError(None), a |-> <<>>, b |-> <<>>, same |-> FALSE]

\* the resolver hands over its build list (it keeps the list: it is gone
\* once the lockfile is saved or compared)
FromBuildList ==
    /\ lock.pc = "idle"
    /\ \E build_list \in BuildLists, root \in Catalog :
          lock' = [lock EXCEPT !.pc = "built", !.origin = "list", !.list = build_list,
                               !.value = from_build_list(build_list, root)]

\* an entry as deserialized from a file written by hand: the dependencies
\* stand as the file lists them (here in the order of the manifest)
AsWritten(ip) == [LockEntry_from(ip, TRUE) EXCEPT !.dependencies = ip.deps]

\* entries put together by the caller, in the caller's order
WrapInputs ==
    {s \in SeqsUpTo({LockEntry_from(ip, FALSE) : ip \in Catalog}
                       \cup {AsWritten(ip) : ip \in Catalog}, 2) : Injective(s)}

Wrap ==
    /\ lock.pc = "idle"
    /\ \E reqs \in WrapInputs :
          lock' = [lock EXCEPT !.pc = "built", !.origin = "wrap", !.value = wrap(reqs)]

\* to_string, and from_str of what it gave
Serialize ==
    /\ lock.pc = "built"
    /\ LET text == to_string(lock.value)
       IN  lock' = [lock EXCEPT !.pc = "parsed", !.text = text, !.parsed = from_str(text)]

SaveToDisk ==
    /\ lock.pc = "built"
    /\ lock' = [lock EXCEPT !.pc = "saved", !.list = <<>>,
                            !.disk = save_to_disk(lock.value)]

\* a later orbit has left its lockfile in the project
Foreign ==
    /\ lock.pc = "idle"
    /\ lock' = [lock EXCEPT !.pc = "saved", !.disk = ForeignFile,
                            !.damage = [NoDamage EXCEPT !.kind = "foreign"]]

LineKey(l) == IF l[1] = "kv" THEN l[2] ELSE l[1]

Edited(text, i, kind) ==
    IF kind = "junk" THEN InsertAt(text, i - 1, JunkLine)
    ELSE IF kind = "drop" THEN SubSeq(text, 1, i - 1) \o SubSeq(text, i + 1, Len(text))
    ELSE IF kind = "int" THEN [text EXCEPT ![i] = KV(text[i][2], Num(LOCK_VERSION + 1))]
    ELSE [text EXCEPT ![i] = KV(text[i][2], Txt(<<"?">>))]

\* the file is edited by hand, once: a line is broken, lost or given another value
Damage ==
    /\ lock.pc = "saved"
    /\ lock.damage.kind = "none"
    /\ \E i \in 1..Len(lock.disk.text), kind \in {"junk", "drop", "int", "str"} :
          /\ kind \in {"int", "str"} => lock.disk.text[i][1] = "kv"
          /\ lock' = [lock EXCEPT
                        !.disk.text = Edited(lock.disk.text, i, kind),
                        !.damage = [kind |-> kind, key |-> LineKey(lock.disk.text[i]),
                                    top |-> \A h \in Headers(lock.disk.text) : i < h]]

FromFile ==
    /\ lock.pc \in {"idle", "saved"}
    /\ lock' = [lock EXCEPT !.pc = "read", !.got = from_file(lock.disk)]

\* the entries an entry of the lockfile is compared with
Targets(a) ==
    {[a EXCEPT !.checksum = c] : c \in {NoChecksum, 0, 1}}
    \cup {[a EXCEPT !.source = s] : s \in {None, "https://go1.here"}}
    \cup {[a EXCEPT !.uuid = 1 - @]}
    \cup {[a EXCEPT !.version = <<1, 0, 0>>]}
    \cup {[a EXCEPT !.dependencies = IF @ = <<>> THEN <<IpSpec_new("lab2", <<1, 0, 0>>)>>
                                     ELSE SubSeq(@, 2, Len(@)) \o <<@[1]>>]}
    \cup {[a EXCEPT !.checksum = NoChecksum, !.uuid = 1 - @]}

MatchesTarget ==
    /\ lock.pc = "built"
    /\ \E i \in 1..Len(lock.value.ip) :
       \E b \in Targets(lock.value.ip[i]) \cup {lock.value.ip[j] : j \in 1..Len(lock.value.ip)} :
          lock' = [lock EXCEPT !.pc = "compared", !.list = <<>>,
                               !.a = lock.value.ip[i], !.b = b,
                               !.same = matches_target(lock.value.ip[i], b)]

\* ---------------------------------------------------------------------------
\* The SystemVerilog symbol reader (core/lang/sv/symbols/mod.rs)
\* ---------------------------------------------------------------------------

\* longest source, in lexemes
MaxToks == 6

\* what a source is made of: attribute delimiters, keywords, an identifier, a
\* comment, and "?" for text the tokenizer cannot turn into a token
Lexemes == {"(*", "*)", "module", "m", "endmodule", "//", "?"}

\* SystemVerilogTokenizer::tokenize: one result per lexeme, then the end of file
tokenize(s) ==
    [i \in 1..(Len(s) + 1) |->
        IF i > Len(s) THEN [ok |-> TRUE, type |-> "eof", pos |-> i]
        ELSE [ok |-> s[i] # "?", type |-> s[i], pos |-> i]]

from_source_code(s) == tokenize(s)

\* the tokens of the results, the errors skipped
into_tokens(results) == SelectSeq(results, LAMBDA r : r.ok)

\* FromStr of the tokenizer: strict, the first token error is returned
Tokenizer_from_str(s) ==
    IF \E i \in 1..Len(s) : ~tokenize(s)[i].ok
    THEN [ok |-> FALSE, err |-> "TokenError", tokens |-> <<>>]
    ELSE [ok |-> TRUE, err |-> "", tokens |-> tokenize(s)]

is_comment(t) == t.type = "//"

NoSymbol == [name |-> "", pos |-> 0]

SymOk(name, pos) == [ok |-> TRUE, err |-> "", sym |-> [name |-> name, pos |-> pos]]

SymErr(e) == [ok |-> FALSE, err |-> e, sym |-> NoSymbol]

\* parse_attr from the token after the opening delimiter: tokens are taken up
\* to the closing delimiter; the end of file comes first: ExpectingOperator
RECURSIVE parse_attr(_, _)
parse_attr(tokens, j) ==
    IF j > Len(tokens) THEN [ok |-> TRUE, next |-> j]
    ELSE IF tokens[j].type = "*)" THEN [ok |-> TRUE, next |-> j + 1]
    ELSE IF tokens[j].type = "eof" THEN [ok |-> FALSE, next |-> j + 1]
    ELSE parse_attr(tokens, j + 1)

RECURSIVE SkipComments(_, _)
SkipComments(tokens, j) ==
    IF j <= Len(tokens) /\ is_comment(tokens[j]) THEN SkipComments(tokens, j + 1) ELSE j

RECURSIVE ModuleBody(_, _, _)
ModuleBody(tokens, j, pos) ==
    IF j > Len(tokens) THEN [res |-> SymErr("ExpectingKeyword"), next |-> j]
    ELSE IF tokens[j].type = "endmodule" THEN [res |-> SymOk("m", pos), next |-> j + 1]
    ELSE IF tokens[j].type = "eof" THEN [res |-> SymErr("ExpectingKeyword"), next |-> j + 1]
    ELSE ModuleBody(tokens, j + 1, pos)

\* Module::from_tokens from the token after the keyword: the name, then the
\* body up to endmodule
Module_from_tokens(tokens, j, pos) ==
    LET n == SkipComments(tokens, j)
    IN  IF n > Len(tokens) THEN [res |-> SymErr("ExpectingIdentifier"), next |-> n]
        ELSE IF tokens[n].type # "m" THEN [res |-> SymErr("ExpectingIdentifier"), next |-> n + 1]
        ELSE ModuleBody(tokens, n + 1, pos)

RECURSIVE ParseFrom(_, _)
ParseFrom(tokens, i) ==
    IF i > Len(tokens) THEN <<>>
    ELSE IF tokens[i].type = "(*"
         THEN LET r == parse_attr(tokens, i + 1)
              IN  (IF r.ok THEN <<>> ELSE <<SymErr("ExpectingOperator")>>)
                      \o ParseFrom(tokens, r.next)
    ELSE IF tokens[i].type = "module"
         THEN LET r == Module_from_tokens(tokens, i + 1, tokens[i].pos)
              IN  <<r.res>> \o ParseFrom(tokens, r.next)
    ELSE ParseFrom(tokens, i + 1)

\* Parse::parse: one result per module and per attribute that failed
parse(tokens) == ParseFrom(tokens, 1)

Symbols(results) == [i \in 1..Len(results) |-> results[i].sym]

ParserOk(symbols) == [ok |-> TRUE, err |-> "", symbols |-> symbols]

ParserErr(e) == [ok |-> FALSE, err |-> e, symbols |-> <<>>]

read_lazy(s) ==
    LET symbols == parse(into_tokens(from_source_code(s)))
    IN  ParserOk(Symbols(SelectSeq(symbols, LAMBDA f : f.ok)))

\* the errors of the symbols are left out, as read_lazy does
read_Quiet(s) ==
    LET t == Tokenizer_from_str(s)
        symbols == parse(SelectSeq(into_tokens(t.tokens), LAMBDA x : ~is_comment(x)))
    IN  IF ~t.ok THEN ParserErr(t.err)
        ELSE ParserOk(Symbols(SelectSeq(symbols, LAMBDA f : f.ok)))

read(s) ==
    LET t == Tokenizer_from_str(s)
        symbols == parse(SelectSeq(into_tokens(t.tokens), LAMBDA x : ~is_comment(x)))
        errs == SelectSeq(symbols, LAMBDA f : ~f.ok)
    IN  IF ~t.ok THEN ParserErr(t.err)
        ELSE IF errs # <<>> THEN ParserErr(errs[1].err)
        ELSE ParserOk(Symbols(symbols))

NotRead == [ok |-> FALSE, err |-> "", symbols |-> <<>>]

SvStart == [pc |-> "source", src |-> <<>>, lazy |-> NotRead, strict |-> NotRead]

\* the source is read with read_lazy
ReadLazy ==
    /\ sv.pc \in {"source", "strict"}
    /\ sv' = [sv EXCEPT !.pc = IF sv.pc = "source" THEN "lazy" ELSE "both",
                        !.lazy = read_lazy(sv.src)]

\* the source is read with read
Read ==
    /\ sv.pc \in {"source", "lazy"}
    /\ sv' = [sv EXCEPT !.pc = IF sv.pc = "source" THEN "strict" ELSE "both",
                        !.strict = read(sv.src)]

\* ---------------------------------------------------------------------------
\* The ip manifest (core/manifest.rs)
\* ---------------------------------------------------------------------------

\* the keys a manifest may hold in its table `ip`
IpKeys == {"name", "library", "version", "vendor", "summary"}

\* a document: what stands under `ip` (nothing, a plain value, a table), the
\* keys of that table, and whether the table `dependencies` is there
Document(ip, keys, deps) == [ip |-> ip, keys |-> keys, deps |-> deps]

Document_new == Document("none", {}, FALSE)

\* BARE_MANIFEST, parsed
BARE_MANIFEST == Document("table", {"name", "library", "version", "vendor"}, TRUE)

\* IpManifest::init
IpManifest_init == BARE_MANIFEST

contains_table(doc, table) ==
    IF table = "ip" THEN doc.ip = "table" ELSE table = "dependencies" /\ doc.deps

contains_key(doc, key) == key \in doc.keys

MissingTable == <<"missing 'ip' table">>

MissingKey(key) == <<"missing required key '", key, "' in table 'ip'">>

\* the version is not asked for
has_bare_min_NoVersion(doc) ==
    IF ~contains_table(doc, "ip") THEN MissingTable
    ELSE IF ~contains_key(doc, "vendor") THEN MissingKey("vendor")
    ELSE IF ~contains_key(doc, "library") THEN MissingKey("library")
    ELSE IF ~contains_key(doc, "name") THEN MissingKey("name")
    ELSE <<"Ok">>

has_bare_min(doc) ==
    IF ~contains_table(doc, "ip") THEN MissingTable
    ELSE IF ~contains_key(doc, "vendor") THEN MissingKey("vendor")
    ELSE IF ~contains_key(doc, "library") THEN MissingKey("library")
    ELSE IF ~contains_key(doc, "name") THEN MissingKey("name")
    ELSE IF ~contains_key(doc, "version") THEN MissingKey("version")
    ELSE <<"Ok">>

ManStart == [pc |-> "none", doc |-> Document_new, fresh |-> FALSE, result |-> <<>>]

\* a manifest is created for a new ip
ManifestInit ==
    /\ man.pc = "none"
    /\ man' = [pc |-> "loaded", doc |-> IpManifest_init, fresh |-> TRUE, result |-> <<>>]

\* a manifest written by hand is loaded: any document
ManifestFromPath ==
    /\ man.pc = "none"
    /\ \E ip \in {"none", "value", "table"}, keys \in SUBSET IpKeys, deps \in BOOLEAN :
          /\ ip # "table" => keys = {}
          /\ man' = [pc |-> "loaded", doc |-> Document(ip, keys, deps), fresh |-> FALSE,
                     result |-> <<>>]

\* Manifest::write: document[table][key] = value, on the table `ip`
ManifestWrite ==
    /\ man.pc = "loaded"
    /\ contains_table(man.doc, "ip")
    /\ \E key \in IpKeys :
          /\ ~contains_key(man.doc, key)
          /\ man' = [man EXCEPT !.doc.keys = @ \cup {key}, !.fresh = FALSE]

\* the required keys are checked
HasBareMin ==
    /\ man.pc = "loaded"
    /\ man' = [man EXCEPT !.pc = "checked", !.result = has_bare_min(man.doc)]

\* ---------------------------------------------------------------------------
\* The search for manifests (core/manifest.rs, find_file)
\* ---------------------------------------------------------------------------

\* most entries of a directory tree, the search root included
MaxNodes == 5

\* an entry is a directory, a file, or the entry called `name`
EntryKinds == {"dir", "file", "match"}

\* where the entries lie: entry 1 is the path the search starts at, every
\* other entry lies in an entry that comes before it
Parents(n) ==
    {p \in [1..n -> 0..(n - 1)] : p[1] = 0 /\ \A i \in 2..n : p[i] \in 1..(i - 1)}

\* the trees: entries lie in directories, and a directory holds one entry of
\* a name at most
Trees ==
    UNION {
        {t \in {[parent |-> p, kind |-> k] : p \in Parents(n), k \in [1..n -> EntryKinds]} :
            /\ \A i \in 2..n : t.kind[t.parent[i]] = "dir"
            /\ \A i \in 2..n, j \in 2..n :
                  (t.parent[i] = t.parent[j] /\ t.kind[i] = "match" /\ t.kind[j] = "match")
                      => i = j}
        : n \in 1..MaxNodes}

\* read_dir(entry): the entries of the directory
read_dir(t, d) == {i \in DOMAIN t.kind : t.parent[i] = d}

is_dir(t, i) == t.kind[i] = "dir"

\* the orders in which the entries `S` may be listed
Orders(S) ==
    {f \in [1..Cardinality(S) -> S] : \A i, j \in 1..Cardinality(S) : f[i] = f[j] => i = j}

EmptyTree == [parent |-> <<0>>, kind |-> <<"file">>]

WalkStart ==
    [pc |-> "idle", tree |-> EmptyTree, to_process |-> <<>>, result |-> <<>>, seen |-> {}]

\* the start: a directory is queued, a file is looked at and the search ends
FindStart ==
    /\ walk.pc = "idle"
    /\ walk' =
          IF is_dir(walk.tree, 1)
          THEN [walk EXCEPT !.pc = "walking", !.to_process = <<1>>]
          ELSE IF walk.tree.kind[1] = "match"
               THEN [walk EXCEPT !.pc = "done", !.result = <<1>>]
               ELSE [walk EXCEPT !.pc = "done"]

\* the subdirectories are queued although the directory holds a match
ProcessDir_KeepGoing ==
    /\ walk.pc = "walking"
    /\ walk.to_process # <<>>
    /\ LET entry == walk.to_process[Len(walk.to_process)]
           rest == SubSeq(walk.to_process, 1, Len(walk.to_process) - 1)
           found == {e \in read_dir(walk.tree, entry) : walk.tree.kind[e] = "match"}
           dirs == {e \in read_dir(walk.tree, entry) : is_dir(walk.tree, e)}
       IN  \E next_to_process \in Orders(dirs) :
              walk' = [walk EXCEPT !.to_process = rest \o next_to_process,
                                   !.result = IF found = {} THEN @
                                              ELSE Append(@, CHOOSE e \in found : TRUE),
                                   !.seen = @ \cup {entry}]

\* one turn of the loop: the last directory queued is read; at the entry called
\* `name` its path is kept and the reading stops, otherwise the subdirectories
\* are queued in the order they were listed
ProcessDir ==
    /\ walk.pc = "walking"
    /\ walk.to_process # <<>>
    /\ LET entry == walk.to_process[Len(walk.to_process)]
           rest == SubSeq(walk.to_process, 1, Len(walk.to_process) - 1)
           found == {e \in read_dir(walk.tree, entry) : walk.tree.kind[e] = "match"}
           dirs == {e \in read_dir(walk.tree, entry) : is_dir(walk.tree, e)}
       IN  IF found # {}
           THEN walk' = [walk EXCEPT !.to_process = rest,
                                     !.result = Append(@, CHOOSE e \in found : TRUE),
                                     !.seen = @ \cup {entry}]
           ELSE \E next_to_process \in Orders(dirs) :
                   walk' = [walk EXCEPT !.to_process = rest \o next_to_process,
                                        !.seen = @ \cup {entry}]

\* nothing is left to process: Ok(result)
FindReturn ==
    /\ walk.pc = "walking"
    /\ walk.to_process = <<>>
    /\ walk' = [walk EXCEPT !.pc = "done"]

CacheInit ==
    /\ srcTag = 0
    /\ stored = FALSE
    /\ storeTag = 0
    /\ cache = <<>>
    /\ proc = [p \in Procs |-> Idle]

PlanIdle ==
    /\ ents = <<>>
    /\ archs = <<>>
    /\ plan = PlanStart
    /\ blueprint = NoFile
    /\ envFile = NoFile

LockIdle == lock = LockStart

\* nothing is being read, checked or searched
LibIdle ==
    /\ sv = SvStart
    /\ man = ManStart
    /\ walk = WalkStart

Init == CacheInit /\ PlanIdle /\ LockIdle /\ LibIdle

Next ==
    \/ (\E request \in Requests, f \in BOOLEAN : Exec(1, request, f)) /\ UNCHANGED <<planVars, lock, libVars>>
    \/ Resolve(1) /\ UNCHANGED <<planVars, lock, libVars>>
    \/ StoreIp(1) /\ UNCHANGED <<planVars, lock, libVars>>
    \/ CheckoutTemp(1) /\ UNCHANGED <<planVars, lock, libVars>>
    \/ Hash(1) /\ UNCHANGED <<planVars, lock, libVars>>
    \/ Exists(1) /\ UNCHANGED <<planVars, lock, libVars>>
    \/ Verify(1) /\ UNCHANGED <<planVars, lock, libVars>>
    \/ RemoveSlot(1) /\ UNCHANGED <<planVars, lock, libVars>>
    \/ CreateDir(1) /\ UNCHANGED <<planVars, lock, libVars>>
    \/ ListDir(1) /\ UNCHANGED <<planVars, lock, libVars>>
    \/ CopyItem(1) /\ UNCHANGED <<planVars, lock, libVars>>
    \/ WriteSum(1) /\ UNCHANGED <<planVars, lock, libVars>>
    \/ Load(1) /\ UNCHANGED <<planVars, lock, libVars>>
    \/ Return(1) /\ UNCHANGED <<planVars, lock, libVars>>
    \/ Interrupt(1) /\ UNCHANGED <<planVars, lock, libVars>>
    \/ Tamper /\ UNCHANGED <<planVars, lock, libVars>>

Spec == Init /\ [][Next]_vars

\* two commands started side by side, each run once
ConcRequests == {Latest, Exact(1)}

NextConc ==
    \E p \in Procs :
        \/ (\E request \in ConcRequests, f \in BOOLEAN : Exec(p, request, f)) /\ UNCHANGED <<planVars, lock, libVars>>
        \/ Resolve(p) /\ UNCHANGED <<planVars, lock, libVars>>
        \/ StoreIp(p) /\ UNCHANGED <<planVars, lock, libVars>>
        \/ CheckoutTemp(p) /\ UNCHANGED <<planVars, lock, libVars>>
        \/ Hash(p) /\ UNCHANGED <<planVars, lock, libVars>>
        \/ Exists(p) /\ UNCHANGED <<planVars, lock, libVars>>
        \/ Verify(p) /\ UNCHANGED <<planVars, lock, libVars>>
        \/ RemoveSlot(p) /\ UNCHANGED <<planVars, lock, libVars>>
        \/ CreateDir(p) /\ UNCHANGED <<planVars, lock, libVars>>
        \/ ListDir(p) /\ UNCHANGED <<planVars, lock, libVars>>
        \/ CopyItem(p) /\ UNCHANGED <<planVars, lock, libVars>>
        \/ WriteSum(p) /\ UNCHANGED <<planVars, lock, libVars>>
        \/ Load(p) /\ UNCHANGED <<planVars, lock, libVars>>

SpecConc == Init /\ [][NextConc]_vars

\* the planner started on a working ip, no install running
InitPlan ==
    /\ srcTag = 0
    /\ stored = FALSE
    /\ storeTag = 0
    /\ cache = <<>>
    /\ proc = [p \in Procs |-> Idle]
    /\ PlanInit
    /\ lock = LockStart
    /\ LibIdle

SpecPlan == InitPlan /\ [][NextPlan]_vars

\* entity symbols of a working ip in which a name may be declared in any file
UnitSymbols == [name : {"a", "t"}, tb : BOOLEAN, file : {"a.vhd", "t_tb.vhd"}]

\* the planner started on a working ip whose files may declare the same name
InitUnits ==
    /\ srcTag = 0
    /\ stored = FALSE
    /\ storeTag = 0
    /\ cache = <<>>
    /\ proc = [p \in Procs |-> Idle]
    /\ ents \in SeqsUpTo(UnitSymbols, MaxEnts)
    /\ archs \in SeqsUpTo(ArchSymbols, MaxArchs - 1)
    /\ plan = PlanStart
    /\ blueprint \in {NoFile, StaleFile}
    /\ envFile = blueprint
    /\ lock = LockStart
    /\ LibIdle

SpecUnits == InitUnits /\ [][NextPlan]_vars

\* a project without a lockfile; no install and no plan is running
InitLock ==
    /\ srcTag = 0
    /\ stored = FALSE
    /\ storeTag = 0
    /\ cache = <<>>
    /\ proc = [p \in Procs |-> Idle]
    /\ ents = <<>>
    /\ archs = <<>>
    /\ plan = PlanStart
    /\ blueprint = NoFile
    /\ envFile = NoFile
    /\ lock = LockStart
    /\ LibIdle

NextLock ==
    \/ FromBuildList /\ UNCHANGED <<cacheVars, planVars, libVars>>
    \/ Wrap /\ UNCHANGED <<cacheVars, planVars, libVars>>
    \/ Serialize /\ UNCHANGED <<cacheVars, planVars, libVars>>
    \/ SaveToDisk /\ UNCHANGED <<cacheVars, planVars, libVars>>
    \/ Foreign /\ UNCHANGED <<cacheVars, planVars, libVars>>
    \/ Damage /\ UNCHANGED <<cacheVars, planVars, libVars>>
    \/ FromFile /\ UNCHANGED <<cacheVars, planVars, libVars>>
    \/ MatchesTarget /\ UNCHANGED <<cacheVars, planVars, libVars>>

SpecLock == InitLock /\ [][NextLock]_vars

\* a SystemVerilog source of the working ip, about to be read
InitSv ==
    /\ srcTag = 0
    /\ stored = FALSE
    /\ storeTag = 0
    /\ cache = <<>>
    /\ proc = [p \in Procs |-> Idle]
    /\ ents = <<>>
    /\ archs = <<>>
    /\ plan = PlanStart
    /\ blueprint = NoFile
    /\ envFile = NoFile
    /\ lock = LockStart
    /\ sv \in {[SvStart EXCEPT !.src = s] : s \in SeqsUpTo(Lexemes, MaxToks)}
    /\ man = ManStart
    /\ walk = WalkStart

NextSv ==
    \/ ReadLazy /\ UNCHANGED <<cacheVars, planVars, lock, man, walk>>
    \/ Read /\ UNCHANGED <<cacheVars, planVars, lock, man, walk>>

SpecSv == InitSv /\ [][NextSv]_vars

NextManifest ==
    \/ ManifestInit /\ UNCHANGED <<cacheVars, planVars, lock, sv, walk>>
    \/ ManifestFromPath /\ UNCHANGED <<cacheVars, planVars, lock, sv, walk>>
    \/ ManifestWrite /\ UNCHANGED <<cacheVars, planVars, lock, sv, walk>>
    \/ HasBareMin /\ UNCHANGED <<cacheVars, planVars, lock, sv, walk>>

SpecManifest == Init /\ [][NextManifest]_vars

\* a directory tree about to be searched
InitFind ==
    /\ srcTag = 0
    /\ stored = FALSE
    /\ storeTag = 0
    /\ cache = <<>>
    /\ proc = [p \in Procs |-> Idle]
    /\ ents = <<>>
    /\ archs = <<>>
    /\ plan = PlanStart
    /\ blueprint = NoFile
    /\ envFile = NoFile
    /\ lock = LockStart
    /\ sv = SvStart
    /\ man = ManStart
    /\ walk \in {[WalkStart EXCEPT !.tree = t] : t \in Trees}

NextFind ==
    \/ FindStart /\ UNCHANGED <<cacheVars, planVars, lock, sv, man>>
    \/ ProcessDir /\ UNCHANGED <<cacheVars, planVars, lock, sv, man>>
    \/ FindReturn /\ UNCHANGED <<cacheVars, planVars, lock, sv, man>>

\* find_file is a loop of one thread: while a step is possible one is taken
SpecFind == InitFind /\ [][NextFind]_vars /\ WF_vars(NextFind)

(***************************************************************************)
(* Properties of the cache engine                                          *)
(***************************************************************************)

\* the slot `n` holds the whole tree of its version and the digest of it
Intact(n, s) ==
    /\ DOMAIN s.files = TreePaths \ {GitDir}
    /\ \A f \in DOMAIN s.files : s.files[f] = WorkTree(n[2])[f]
    /\ s.sum = checksum(WorkTree(n[2]))

\* a step of the install `p` (not of the environment)
InstallMoves(p) == proc'[p] # proc[p] /\ proc'[p].pc # "idle"

\* C1: while the slot of a version is intact, an install of that version without
\* force names that very slot, and no step of it deletes, copies into or rewrites
\* an intact slot; the cache never holds two slots of one version.
C1_SameSlotNoChurn ==
    /\ [](\A n \in DOMAIN cache, m \in DOMAIN cache : n[2] = m[2] => n = m)
    /\ [][\A p \in Procs :
            (InstallMoves(p) /\ ~proc'[p].force) =>
                /\ \A n \in DOMAIN cache :
                      Intact(n, cache[n]) => (n \in DOMAIN cache' /\ cache'[n] = cache[n])
                /\ proc'[p].pc = "exists" =>
                      \A n \in DOMAIN cache :
                          (n[2] = proc'[p].ver /\ Intact(n, cache[n])) => proc'[p].slot = n
         ]_vars

\* C1 witness: an install without force has found its intact slot and left it.
C1_Witness ==
    \E p \in Procs :
        /\ proc[p].pc = "done" /\ ~proc[p].force /\ proc[p].result = "AlreadyInstalled"
        /\ proc[p].slot \in DOMAIN cache /\ Intact(proc[p].slot, cache[proc[p].slot])

\* C2: two installs of one version without force, run side by side: one creates
\* the slot, the other finds it, neither ends in an error, the slot is intact.
C2_Serialized ==
    (/\ \A p \in Procs : proc[p].pc = "done" /\ ~proc[p].force /\ proc[p].ver # 0
     /\ proc[1].ver = proc[2].ver)
    => /\ {proc[1].result, proc[2].result} = {"Ok", "AlreadyInstalled"}
       /\ proc[1].slot = proc[2].slot
       /\ proc[1].slot \in DOMAIN cache
       /\ Intact(proc[1].slot, cache[proc[1].slot])

\* C4: after a successful install the marker of the slot equals the digest
\* recomputed over the slot; and a slot passes the validity test only while
\* its files and marker are the installed ones.
C4_ChecksumMatches ==
    /\ \A p \in Procs :
          (proc[p].pc = "done" /\ proc[p].result = "Ok") =>
              /\ proc[p].slot \in DOMAIN cache
              /\ cache[proc[p].slot].sum # NoSum
              /\ cache[proc[p].slot].sum = checksum(cache[proc[p].slot].files)
              /\ SlotIsValid(cache[proc[p].slot])
    /\ \A n \in DOMAIN cache : SlotIsValid(cache[n]) => Intact(n, cache[n])

\* C4 witness: an install ended Ok over a slot that was damaged before.
C4_Witness ==
    \E p \in Procs :
        /\ proc[p].pc = "done" /\ proc[p].result = "Ok"
        /\ \E n \in DOMAIN cache : n # proc[p].slot /\ ~Intact(n, cache[n])

\* C6: an install without force that has named its slot ends with the slot
\* rebuilt and valid and reports no failure, whatever damage it found there.
C6_ReinstallsBadSlot ==
    \A p \in Procs :
        (proc[p].pc = "done" /\ ~proc[p].force /\ proc[p].slot # NoSlot) =>
            /\ proc[p].slot \in DOMAIN cache
            /\ SlotIsValid(cache[proc[p].slot])
            /\ proc[p].result \in {"Ok", "AlreadyInstalled"}

\* what a cancelled install leaves: no marker, and some of the files
Leftover(n, s) ==
    /\ s.sum = NoSum
    /\ DOMAIN s.files \subseteq TreePaths \ {GitDir}
    /\ \A f \in DOMAIN s.files : s.files[f] = WorkTree(n[2])[f]

\* C7: the validity test of an install without force never ends the install
\* when the slot is the leftover of a cancelled one: it goes on to discard it.
C7_LeftoverDiscarded ==
    [][\A p \in Procs :
          (/\ proc[p].pc = "verify" /\ InstallMoves(p) /\ ~proc[p].force
           /\ proc[p].slot \in DOMAIN cache
           /\ Leftover(proc[p].slot, cache[proc[p].slot]))
          => proc'[p].pc = "remove"
      ]_vars

\* C8: every directory found at a slot's path is a complete slot.
C8_AtomicSlots == \A n \in DOMAIN cache : Intact(n, cache[n])

\* C9 as claimed: found already installed under a Latest request without force,
\* the command returns Ok.
C9_AlreadyInstalledIsOk ==
    \A p \in Procs :
        (/\ proc[p].pc = "done" /\ ~proc[p].force /\ proc[p].req = Latest
         /\ proc[p].result = "AlreadyInstalled")
        => run(proc[p].result) = "Ok"

\* C9 amended: the validity test of an install under a Latest request without
\* force, met with an intact slot, ends the command with the already-installed
\* error, and the cache is left as it was.
C9_AlreadyInstalledIsErr ==
    [][\A p \in Procs :
          (/\ proc[p].pc = "verify" /\ InstallMoves(p) /\ ~proc[p].force
           /\ proc[p].req = Latest
           /\ proc[p].slot \in DOMAIN cache
           /\ Intact(proc[p].slot, cache[proc[p].slot]))
          => /\ proc'[p].pc = "done"
             /\ proc'[p].result = "AlreadyInstalled"
             /\ run(proc'[p].result) = "Err"
             /\ cache' = cache
      ]_vars

\* C9 witness: a Latest request without force ended on its intact slot.
C9_Witness ==
    \E p \in Procs :
        /\ proc[p].pc = "done" /\ ~proc[p].force /\ proc[p].req = Latest
        /\ proc[p].result = "AlreadyInstalled" /\ run(proc[p].result) = "Err"
        /\ proc[p].slot \in DOMAIN cache /\ Intact(proc[p].slot, cache[proc[p].slot])

\* C21: with force an install that finds its slot, intact or damaged, goes on
\* to delete it without the validity test, and a forced install that has named
\* its slot ends Ok with the slot rebuilt from the tagged tree and intact.
C21_ForceReinstalls ==
    /\ [][\A p \in Procs :
            (/\ proc[p].pc = "exists" /\ InstallMoves(p) /\ proc[p].force
             /\ proc[p].slot \in DOMAIN cache)
            => proc'[p].pc = "remove"
         ]_vars
    /\ [][\A p \in Procs :
            (proc[p].pc = "remove" /\ InstallMoves(p) /\ proc[p].force)
            => /\ proc'[p].pc = "create"
               /\ proc[p].slot \notin DOMAIN cache'
         ]_vars
    /\ [](\A p \in Procs :
            (proc[p].pc = "done" /\ proc[p].force /\ proc[p].slot # NoSlot) =>
                /\ proc[p].result = "Ok"
                /\ run(proc[p].result) = "Ok"
                /\ proc[p].slot \in DOMAIN cache
                /\ Intact(proc[p].slot, cache[proc[p].slot]))

\* C21 witness: a forced install found its slot there and ended Ok on it.
C21_Witness ==
    \E p \in Procs :
        /\ proc[p].pc = "done" /\ proc[p].force /\ proc[p].existed
        /\ proc[p].result = "Ok"
        /\ proc[p].slot \in DOMAIN cache /\ Intact(proc[p].slot, cache[proc[p].slot])

\* the request cannot be installed: a dev version, or a version no tag carries
NotInstallable(request) ==
    request.kind = "Dev" \/ get_target_version(request, Tags) = 0

\* C22: an install of a dev version or of a version no tag carries ends in an
\* error, and no step of it creates, changes or deletes a slot or the store's
\* copy of the ip.
C22_RefusedLeavesNoTrace ==
    [][\A p \in Procs :
          (InstallMoves(p) /\ NotInstallable(proc'[p].req)) =>
              /\ cache' = cache
              /\ stored' = stored
              /\ storeTag' = storeTag
              /\ proc'[p].pc \in {"open", "done"}
              /\ proc'[p].pc = "done" =>
                    /\ proc'[p].result \in {"DevVersion", "UnknownVersion"}
                    /\ run(proc'[p].result) = "Err"
      ]_vars

\* C22 witness: a version no tag carries was refused while the cache held a
\* slot and the store a copy; another state shows a dev version refused.
C22_Witness ==
    \E p \in Procs :
        /\ proc[p].pc = "done" /\ proc[p].result = "UnknownVersion"
        /\ proc[p].req = Exact(3)
        /\ cache # <<>> /\ stored

\* C26: the tree an install hashes and copies from is the store's copy of the
\* ip, checked out at the resolved tag, whether the store held the ip before
\* the install or not.
C26_WorksFromStore ==
    \A p \in Procs :
        proc[p].pc \in {"hash", "exists", "verify", "remove", "create", "list", "copy", "load"} =>
            /\ proc[p].temp = "store"
            /\ stored
            /\ storeTag = proc[p].ver

(***************************************************************************)
(* Properties of the planner                                               *)
(***************************************************************************)

Declared == {ents[i].name : i \in 1..Len(ents)}

\* unit `v` has an architecture that instantiates the unit `u` of the working ip
Instantiates(v, u) ==
    /\ u \in Declared
    /\ v \in Declared
    /\ \E k \in 1..Len(archs) :
          /\ archs[k].entity = v
          /\ \E j \in 1..Len(archs[k].edges) : archs[k].edges[j] = u

\* the units `S` instantiates, directly or through others, with `S`
RECURSIVE Below(_)
Below(S) ==
    LET more == S \cup {u \in Declared : \E v \in S : Instantiates(v, u)}
    IN  IF more = S THEN S ELSE Below(more)

\* every architecture belongs to a unit of the index
AllOwned == \A k \in 1..Len(archs) : archs[k].entity \in Declared

\* some unit instantiates itself, directly or through others
CyclicUnits ==
    \E u \in Declared : u \in Below({w \in Declared : Instantiates(u, w)})

Planned == plan.pc \in {"planned", "blueprint", "done"}

NoHints == plan.top = None /\ plan.bench = None

\* the units of the ordering, by name
OrderNames == [i \in 1..Len(plan.out.order) |-> ents[plan.out.order[i] + 1].name]

BenchName == ents[plan.out.bench + 1].name

\* C3: the ordering of a plan holds the bench and the units it instantiates,
\* directly or through others, each once and nothing else, and every unit
\* stands before the units that instantiate it.
C3_MinimalOrder ==
    Planned =>
        /\ {OrderNames[i] : i \in 1..Len(OrderNames)} = Below({BenchName})
        /\ \A i \in 1..Len(OrderNames), j \in 1..Len(OrderNames) :
              /\ i # j => OrderNames[i] # OrderNames[j]
              /\ Instantiates(OrderNames[j], OrderNames[i]) => i < j

\* C3 witness: a plan over three units of which the first is reached from the
\* bench only through the second.
C3_Witness ==
    /\ Planned
    /\ Len(plan.out.order) = 3
    /\ ~Instantiates(OrderNames[3], OrderNames[1])

BenchCandidates ==
    {n \in Declared :
        /\ \E i \in 1..Len(ents) : ents[i].name = n /\ ents[i].tb
        /\ ~\E v \in Declared : Instantiates(v, n)}

\* C10: without --top and --bench the bench is the one candidate, and with
\* no candidate or several the plan fails as AmbiguousBench.
C10_UniqueBench ==
    (plan.pc # "idle" /\ NoHints /\ AllOwned /\ ~CyclicUnits) =>
        IF Cardinality(BenchCandidates) = 1
        THEN /\ plan.out.error # "AmbiguousBench"
             /\ Planned => BenchName \in BenchCandidates
        ELSE plan.pc = "failed" /\ plan.out.error = "AmbiguousBench"

\* no name is declared twice
UniqueNames == \A i \in 1..Len(ents), j \in 1..Len(ents) : ents[i].name = ents[j].name => i = j

\* the unit the index holds under the name `n`
UnitOf(n) == ents[Max({i \in 1..Len(ents) : ents[i].name = n})]

WellFormed == UniqueNames /\ AllOwned /\ ~CyclicUnits

TopName == ents[plan.out.top + 1].name

\* the units of the working ip that the bench given by --bench instantiates
BenchUses == {u \in Declared : Instantiates(plan.bench, u)}

\* C11: without --top, top is the one unit the bench instantiates; the plan
\* fails as NoTop when the bench instantiates no unit, as AmbiguousTop when it
\* instantiates two or more different units, and takes the unit as top when
\* it is the only one, however often it is instantiated.
C11_UniqueTop ==
    (/\ plan.pc # "idle"
     /\ WellFormed
     /\ plan.top = None
     /\ plan.bench \in Declared
     /\ UnitOf(plan.bench).tb) =>
        IF BenchUses = {}
        THEN plan.pc = "failed" /\ plan.out.error = "NoTop"
        ELSE IF Cardinality(BenchUses) >= 2
             THEN plan.pc = "failed" /\ plan.out.error = "AmbiguousTop"
             ELSE Planned /\ TopName \in BenchUses

\* the units of the working ip that instantiate the unit given by --top
TopUsers == {v \in Declared : Instantiates(v, plan.top)}

\* C12: with --top naming a unit that is not a testbench and without --bench,
\* the bench is the one unit that instantiates top, and the plan fails as
\* AmbiguousBench when no unit or several units instantiate top.
C12_BenchOfTop ==
    (/\ plan.pc # "idle"
     /\ WellFormed
     /\ plan.bench = None
     /\ plan.top \in Declared
     /\ ~UnitOf(plan.top).tb) =>
        IF Cardinality(TopUsers) = 1
        THEN Planned /\ BenchName \in TopUsers
        ELSE plan.pc = "failed" /\ plan.out.error = "AmbiguousBench"

BadBenchHint == plan.bench # None /\ (plan.bench \notin Declared \/ ~UnitOf(plan.bench).tb)

BadTopHint == plan.top # None /\ (plan.top \notin Declared \/ UnitOf(plan.top).tb)

\* C13: a --bench that names no unit of the index or a unit that is not a
\* testbench, and a --top that names no unit or a testbench, make the plan
\* fail; in a well-formed design the failure is the one of the hint.
C13_HintsChecked ==
    (plan.pc # "idle" /\ (BadBenchHint \/ BadTopHint)) =>
        /\ plan.pc = "failed"
        /\ WellFormed => plan.out.error \in {"NoEntity", "NotTestbench", "IsTestbench"}

\* C13 witness: --bench names a testbench, --top names a testbench too, and
\* the plan failed on top.
C13_Witness ==
    /\ plan.pc = "failed"
    /\ WellFormed
    /\ ~BadBenchHint /\ plan.bench # None
    /\ plan.top \in Declared /\ UnitOf(plan.top).tb
    /\ plan.out.error = "IsTestbench"

\* some name is declared by entities of two different files
DeclaredTwice ==
    \E i \in 1..Len(ents), j \in 1..Len(ents) :
        ents[i].name = ents[j].name /\ ents[i].file # ents[j].file

\* C14: a name declared in two different files makes the plan fail as
\* DuplicateUnit (seen here with --top and --bench naming units of the right
\* kind in a design without cycles, where nothing else can fail).
C14_DuplicateUnit ==
    (/\ plan.pc # "idle"
     /\ DeclaredTwice
     /\ AllOwned /\ ~CyclicUnits
     /\ plan.bench # None /\ ~BadBenchHint
     /\ plan.top # None /\ ~BadTopHint) =>
        plan.pc = "failed" /\ plan.out.error = "DuplicateUnit"

C29_KindsOfTopAndBench ==
    (Planned /\ WellFormed) =>
        /\ UnitOf(BenchName).tb
        /\ ~UnitOf(TopName).tb

\* the files of the unit `n`: the file that declares it, then the files of its
\* architectures, each once
UnitFiles(n) ==
    LET decl == UnitOf(n).file
        more == {archs[k].file : k \in {j \in 1..Len(archs) : archs[j].entity = n}} \ {decl}
    IN  IF more = {} THEN <<decl>> ELSE <<decl, CHOOSE f \in more : TRUE>>

RECURSIVE FilesInOrder(_, _)
FilesInOrder(names, k) ==
    IF k > Len(names) THEN <<>> ELSE UnitFiles(names[k]) \o FilesInOrder(names, k + 1)

\* the paths of the HDL records of the plan
RecordPaths == [i \in 1..Len(plan.out.data) |-> plan.out.data[i][3]]

\* C27: the HDL records name the files of the units of the ordering, unit by
\* unit and for each unit in insertion order, and no path stands in two
\* records, also when one file serves several units of the ordering.
C27_OneRecordPerFile ==
    (Planned /\ WellFormed) =>
        /\ RecordPaths = FilesInOrder(OrderNames, 1)
        /\ \A i \in 1..Len(RecordPaths), j \in 1..Len(RecordPaths) :
              RecordPaths[i] = RecordPaths[j] => i = j

\* C30: once the graph is built, it has as many nodes as the inverse map has
\* entries and the index has identifiers, the inverse map leads every
\* identifier of the index back to itself, every node index belongs to one
\* identifier only, and every edge joins node indices of the index.
C30_IndexAgrees ==
    (plan.pc # "idle" /\ AllOwned) =>
        LET built == Connect(archs, 1, BuildIndex(ents), <<>>)
            m == built.map
            g == built.edges
            inv == inverse_map(ents)
            nodes == 0..(Len(ents) - 1)
        IN  /\ Cardinality(nodes) = Len(inv)
            /\ Cardinality(nodes) = Cardinality(DOMAIN m)
            /\ \A id \in DOMAIN m : inv[m[id].index + 1] = id
            /\ \A n \in nodes : Cardinality({id \in DOMAIN m : m[id].index = n}) = 1
            /\ \A i \in 1..Len(g) :
                  /\ g[i][1] \in {m[id].index : id \in DOMAIN m}
                  /\ g[i][2] \in {m[id].index : id \in DOMAIN m}

\* ---- the lockfile claims ----

\* (name, version) of x is not after (name, version) of y
NotAfter(x, y) ==
    \/ NameRank(x.name) < NameRank(y.name)
    \/ x.name = y.name /\ Version_cmp(x.version, y.version) # "Greater"

Ascending(s) == \A i \in 1..Len(s), j \in 1..Len(s) : i < j => NotAfter(s[i], s[j])

\* what the text says of its tables: name and version of each, and of each
\* of its dependencies, as written
Written(text) ==
    LET tabs == TablesOf(text)
    IN  [k \in 1..Len(tabs) |->
            LET dependencies == Lookup(tabs[k], "dependencies")[2]
            IN  [name |-> Lookup(tabs[k], "name")[2][1],
                 version |-> Version_from_str(Lookup(tabs[k], "version")[2][1]),
                 dependencies |->
                    [i \in 1..Len(dependencies) |->
                        [name |-> dependencies[i][1],
                         version |-> Version_from_str(dependencies[i][3])]]]]

Held(lf) ==
    [k \in 1..Len(lf.ip) |->
        [name |-> lf.ip[k].name, version |-> lf.ip[k].version,
         dependencies |-> lf.ip[k].dependencies]]

\* C15: a lockfile that is turned into text and parsed comes back equal, and
\* so does a lockfile saved to disk and read from the untouched file.
C15_RoundTrip ==
    /\ lock.pc = "parsed" => (lock.parsed.ok /\ lock.parsed.value = lock.value)
    /\ (lock.pc = "read" /\ lock.origin # "none" /\ lock.damage.kind = "none") =>
          (lock.got.ok /\ ~lock.got.warned /\ lock.got.value = lock.value)

\* C15 witness: a lockfile of three entries or more, one without checksum,
\* one without source, one with dependencies, read back from disk.
C15_Witness ==
    /\ lock.pc = "read" /\ lock.origin = "list" /\ lock.damage.kind = "none"
    /\ Len(lock.value.ip) >= 3
    /\ \E k \in 1..Len(lock.value.ip) : lock.value.ip[k].checksum = NoChecksum
    /\ \E k \in 1..Len(lock.value.ip) : lock.value.ip[k].source = None
    /\ \E k \in 1..Len(lock.value.ip) : Len(lock.value.ip[k].dependencies) = 2

\* C16 as stated: the text of any lockfile lists the entries in ascending
\* (name, version) order, and each entry's dependencies likewise.
C16_SerializedSorted ==
    lock.pc = "parsed" =>
        /\ Ascending(Written(lock.text))
        /\ \A k \in 1..Len(Written(lock.text)) : Ascending(Written(lock.text)[k].dependencies)

\* C16 amended: the text lists entries and dependencies in the order the
\* lockfile holds them, which is ascending for a lockfile made by
\* from_build_list.
C16_SerializedInOrder ==
    lock.pc = "parsed" =>
        /\ Written(lock.text) = Held(lock.value)
        /\ lock.origin = "list" =>
              /\ Ascending(Written(lock.text))
              /\ \A k \in 1..Len(Written(lock.text)) :
                    Ascending(Written(lock.text)[k].dependencies)

\* C16 witness: the build list lab4, lab3, lab2, lab1 written as lab1, lab2,
\* lab3, lab4 with lab1's dependencies lab2 then lab4.
C16_Witness ==
    /\ lock.pc = "parsed" /\ lock.origin = "list"
    /\ Len(lock.list) = 4
    /\ \A i \in 1..4 : lock.list[i].name = LockNames[5 - i]
    /\ \A i \in 1..4 : Written(lock.text)[i].name = LockNames[i]
    /\ Written(lock.text)[1].dependencies =
          <<IpSpec_new("lab2", <<1, 0, 0>>), IpSpec_new("lab4", <<0, 5, 19>>)>>

\* the ips of the list, each as name and version
ListKeys(s) == {<<s[i].name, s[i].version>> : i \in 1..Len(s)}

\* C17: the lockfile made from a build list holds the ips of the list in
\* ascending (name, version) order and each entry's dependencies in ascending
\* (name, version) order.
C17_BuildListSorted ==
    (lock.origin = "list" /\ lock.pc \in {"built", "parsed"}) =>
        /\ Len(lock.value.ip) = Len(lock.list)
        /\ ListKeys(lock.value.ip) = ListKeys(lock.list)
        /\ Ascending(lock.value.ip)
        /\ \A k \in 1..Len(lock.value.ip) : Ascending(lock.value.ip[k].dependencies)

\* C17 witness: a build list that names lab3 2.10.0 before lab3 2.3.1 and
\* lab1, whose manifest names lab4 before lab2, last.
C17_Witness ==
    /\ lock.origin = "list" /\ lock.pc = "built"
    /\ Len(lock.list) >= 3
    /\ lock.list[1].name = "lab3" /\ lock.list[1].version = <<2, 10, 0>>
    /\ lock.list[2].name = "lab3" /\ lock.list[2].version = <<2, 3, 1>>
    /\ lock.list[Len(lock.list)].name = "lab1"

\* the file still says version = 1 before its first table
SaysVersionOne(text) ==
    \E i \in 1..Len(text) :
        /\ text[i][1] = "kv" /\ text[i][2] = "version"
        /\ text[i][3][1] = "int" /\ text[i][3][2] = 1
        /\ \A h \in Headers(text) : i < h

\* the edit broke the file: a line that is not TOML, an entry key lost or of
\* the wrong type, or a version, uuid or checksum that cannot be read
Malformed ==
    /\ ~lock.damage.top
    /\ \/ lock.damage.kind = "junk"
       \/ lock.damage.kind = "drop" /\ lock.damage.key \in {"name", "version", "uuid", "dependencies"}
       \/ lock.damage.kind = "int" /\ lock.damage.key \in {"name", "version", "uuid", "checksum", "dependencies"}
       \/ lock.damage.kind = "str" /\ lock.damage.key \in {"version", "uuid", "checksum"}

\* C18: reading a malformed file that says version = 1 succeeds with a warning
\* and gives the empty lockfile.
C18_MalformedIsEmpty ==
    (lock.pc = "read" /\ SaysVersionOne(lock.disk.text) /\ Malformed) =>
        (lock.got.ok /\ lock.got.warned /\ lock.got.value = LockFile_new)

\* the file is TOML and its version is a number other than 1
OtherVersion(text) ==
    /\ toml_ok(text)
    /\ Lookup(TopOf(text), "version")[1] = "int"
    /\ Lookup(TopOf(text), "version")[2] # 1

\* C19: reading a file whose version is not 1 fails as unsupported version
\* and gives no lockfile, whatever its tables hold.
C19_UnsupportedVersion ==
    (lock.pc = "read" /\ lock.disk.exists /\ OtherVersion(lock.disk.text)) =>
        (~lock.got.ok /\ lock.got.err = "UnsupportedVersion" /\ lock.got.value = LockFile_new)

\* C19 witness: the file of a later orbit, whose tables version 1 cannot
\* read, was refused.
C19_Witness ==
    /\ lock.pc = "read" /\ lock.damage.kind = "foreign"
    /\ ~from_str(lock.disk.text).ok
    /\ lock.got.err = "UnsupportedVersion"

\* C20: two entries match exactly when name, version, source and the list of
\* dependencies are equal; checksum (and uuid) play no part.
C20_MatchesTarget ==
    lock.pc = "compared" =>
        (lock.same <=>
            /\ lock.a.name = lock.b.name
            /\ lock.a.version = lock.b.version
            /\ lock.a.source = lock.b.source
            /\ lock.a.dependencies = lock.b.dependencies)

\* C20 witness: an entry with a checksum matched the same entry without one.
C20_Witness ==
    /\ lock.pc = "compared" /\ lock.same
    /\ lock.a.checksum # NoChecksum /\ lock.b.checksum = NoChecksum

\* ---- the claims on the SystemVerilog reader ----

\* what parsing the tokens of the source gives: a result per symbol
SvResults == parse(into_tokens(from_source_code(sv.src)))

SvErrors == SelectSeq(SvResults, LAMBDA f : ~f.ok)

SvGood == Symbols(SelectSeq(SvResults, LAMBDA f : f.ok))

\* the tokenizer turns every lexeme of the source into a token
Tokenizes == \A i \in 1..Len(sv.src) : sv.src[i] # "?"

LazyRead == sv.pc \in {"lazy", "both"}

StrictRead == sv.pc \in {"strict", "both"}

\* read_lazy has not failed and holds the symbols that parsed, in source order
LazyKeepsGood ==
    LazyRead =>
        /\ sv.lazy.ok
        /\ sv.lazy.symbols = SvGood
        /\ \A i \in 1..Len(sv.lazy.symbols) : sv.src[sv.lazy.symbols[i].pos] = "module"
        /\ \A i \in 1..Len(sv.lazy.symbols), j \in 1..Len(sv.lazy.symbols) :
              i < j => sv.lazy.symbols[i].pos < sv.lazy.symbols[j].pos

\* read holds the symbols of read_lazy, or the error of the first symbol that
\* did not parse
StrictFollowsSymbols ==
    IF SvErrors = <<>> THEN sv.strict = ParserOk(SvGood)
    ELSE sv.strict = ParserErr(SvErrors[1].err)

\* the source is an attribute that is opened and never closed
OpenAttr ==
    /\ sv.src # <<>>
    /\ sv.src[1] = "(*"
    /\ \A i \in 2..Len(sv.src) : sv.src[i] \notin {"*)", "?"}

\* C23 as stated: read_lazy never fails and returns the symbols that parse, in
\* source order; read on the same source returns the same symbols when none is
\* malformed and fails with the error of the first malformed one otherwise.
C23_StrictAsLazy ==
    /\ LazyKeepsGood
    /\ StrictRead => StrictFollowsSymbols
    /\ (StrictRead /\ OpenAttr) => sv.strict = ParserErr("ExpectingOperator")

\* C23 amended: the same, for read on a source that tokenizes; on a source the
\* tokenizer fails on, read fails with the tokenizer's error.
C23_StrictAsLazyOfTokens ==
    /\ LazyKeepsGood
    /\ (StrictRead /\ Tokenizes) => StrictFollowsSymbols
    /\ (StrictRead /\ ~Tokenizes) => sv.strict = ParserErr("TokenError")
    /\ (StrictRead /\ OpenAttr) => sv.strict = ParserErr("ExpectingOperator")

\* C23 witness: a source with one module that parses, a module without a name
\* and an attribute left open: read_lazy kept the module, read failed with
\* the error of the module without a name.
C23_Witness ==
    /\ sv.pc = "both"
    /\ Tokenizes
    /\ Len(sv.lazy.symbols) = 1
    /\ Len(SvErrors) = 2
    /\ SvErrors[1].err = "ExpectingIdentifier"
    /\ SvErrors[2].err = "ExpectingOperator"
    /\ sv.strict = ParserErr("ExpectingIdentifier")

\* ---- the claims on the manifest ----

\* the required keys, in the order they are asked for
RequiredKeys == <<"vendor", "library", "name", "version">>

FirstMissing(doc) ==
    RequiredKeys[Min({i \in 1..Len(RequiredKeys) : RequiredKeys[i] \notin doc.keys})]

\* C24: has_bare_min is Ok exactly for a document with a table `ip` that holds
\* vendor, library, name and version; otherwise the error names the table, or
\* the first of the four keys that is missing; a manifest as init made it
\* passes.
C24_BareMin ==
    man.pc = "checked" =>
        /\ (man.result = <<"Ok">>) <=>
              (/\ man.doc.ip = "table"
               /\ \A i \in 1..Len(RequiredKeys) : RequiredKeys[i] \in man.doc.keys)
        /\ man.result # <<"Ok">> =>
              man.result = IF man.doc.ip # "table" THEN MissingTable
                           ELSE MissingKey(FirstMissing(man.doc))
        /\ man.fresh => man.result = <<"Ok">>

\* C24 witness: the manifest of a new ip, checked as init made it.
C24_Witness ==
    /\ man.pc = "checked"
    /\ man.fresh
    /\ man.result = <<"Ok">>

\* ---- the claims on find_file ----

\* the directories the entry `i` lies in, up to the search root
RECURSIVE Up(_, _)
Up(t, i) == IF t.parent[i] = 0 THEN {} ELSE {t.parent[i]} \cup Up(t, t.parent[i])

HasMatch(t, d) == \E e \in read_dir(t, d) : t.kind[e] = "match"

\* the entries called `name` whose directory has no directory above it that
\* holds such an entry
Expected(t) ==
    IF ~is_dir(t, 1) THEN (IF t.kind[1] = "match" THEN {1} ELSE {})
    ELSE {e \in DOMAIN t.kind \ {1} :
             /\ t.kind[e] = "match"
             /\ \A a \in Up(t, t.parent[e]) : ~HasMatch(t, a)}

Found == {walk.result[i] : i \in 1..Len(walk.result)}

SubDirs(t, d) == {e \in read_dir(t, d) : is_dir(t, e)}

\* C28: find_file ends on every tree; it returns, each once, the entries called
\* `name` of the directories that hold one and lie under no directory that
\* holds one; no path returned lies under the directory of another; the
\* subdirectories of a directory without a match are all read, those of a
\* directory with a match are not.
C28_FindFile ==
    /\ [](walk.pc = "done" =>
            /\ Found = Expected(walk.tree)
            /\ Len(walk.result) = Cardinality(Found)
            /\ \A r \in Found, q \in Found :
                  r # q => walk.tree.parent[r] \notin Up(walk.tree, q)
            /\ \A d \in walk.seen :
                  IF HasMatch(walk.tree, d)
                  THEN SubDirs(walk.tree, d) \cap walk.seen = {}
                  ELSE SubDirs(walk.tree, d) \subseteq walk.seen)
    /\ <>(walk.pc = "done")

\* C28 witness: the search went down from the root, returned the match of a
\* directory and left out a match that lies deeper under that directory.
C28_Witness ==
    /\ walk.pc = "done"
    /\ \E r \in Found, e \in DOMAIN walk.tree.kind :
          /\ walk.tree.parent[r] # 1
          /\ walk.tree.kind[e] = "match"
          /\ e \notin Found
          /\ walk.tree.parent[r] \in Up(walk.tree, walk.tree.parent[e])

====
